---- MODULE Spec2Model ----
(***************************************************************************)
(* Frame capture, scroll choreography and streaming encode of the          *)
(* gif-scroll-animation actor.                                             *)
(*                                                                         *)
(* Spec        models src/src/main.js (first Apify.main) driving           *)
(*             src/src/helper.js through the recording and scroll phases.  *)
(* FairSpec    is Spec with the event loop's progress guarantee.           *)
(* SpecPipeline follows the same code through the click phase, the         *)
(*             assembly of the gif, compressGif, the delivery and cleanup; *)
(*             FairSpecPipeline adds the progress guarantee.               *)
(* SpecLegacy  models the older helper kept in src/unnamed/part_002 driven *)
(*             by the older main of src/unnamed/part_001.                  *)
(*                                                                         *)
(* JavaScript numbers are IEEE-754 binary64.  Every quantity that the code *)
(* computes with a division (recordingTime / 1000, 1000 / frameRate) or    *)
(* accumulates from such a value (elapsedTime) is therefore carried as a   *)
(* binary64 value: a fixed-point natural number in limbs of 15 bits with   *)
(* each arithmetic result rounded to 53 significant bits, ties to even.    *)
(* Integer-valued quantities (pixel offsets, counters) are exact in        *)
(* binary64 and are carried as TLA+ integers.                              *)
(***************************************************************************)
EXTENDS Integers, Sequences, FiniteSets, TLC

(***************************************************************************)
(* Bounds of the model.                                                    *)
(***************************************************************************)
MaxGifTime == 5000
MaxPageHeight == 3000
RandomDen == 4
MaxFrames == 80
MaxPending == 2

(***************************************************************************)
(* Program constants.                                                      *)
(***************************************************************************)
viewportHeight == 768
maxScrolls == 10
waitScrolls == 7
minVariation == 27
maxVariation == 44
maxRetries == 3

(***************************************************************************)
(* binary64 arithmetic.  A value v >= 0 is the tuple x of NLimbs limbs     *)
(* with v = (SUM x[i] * Base^(i-1)) / Base^FracLimbs.                      *)
(***************************************************************************)
Base == 32768
LimbBits == 15
NLimbs == 8
FracLimbs == 5
MantissaBits == 53

Zero == <<0, 0, 0, 0, 0, 0, 0, 0>>
One == <<1, 0, 0, 0, 0, 0, 0, 0>>

\* F(e) with e evaluated once, before F is applied
Let(e, F(_)) == CHOOSE r \in {F(w) : w \in {e}} : TRUE

RECURSIVE AddFrom(_, _, _, _)
AddFrom(x, y, i, c) ==
    IF i > NLimbs THEN <<>>
    ELSE Let(x[i] + y[i] + c,
             LAMBDA s : <<s % Base>> \o AddFrom(x, y, i + 1, s \div Base))

BigAdd(x, y) == AddFrom(x, y, 1, 0)

RECURSIVE MulFrom(_, _, _, _)
MulFrom(x, k, i, c) ==
    IF i > NLimbs THEN <<>>
    ELSE Let(x[i] * k + c,
             LAMBDA s : <<s % Base>> \o MulFrom(x, k, i + 1, s \div Base))

BigMulSmall(x, k) == MulFrom(x, k, 1, 0)

\* long division by d from limb i down, r the remainder carried in
RECURSIVE DivFrom(_, _, _, _)
DivFrom(x, d, i, r) ==
    IF i = 0 THEN [q |-> <<>>, r |-> r]
    ELSE Let(r * Base + x[i],
             LAMBDA cur : Let(DivFrom(x, d, i - 1, cur % d),
                              LAMBDA rest : [q |-> Append(rest.q, cur \div d),
                                             r |-> rest.r]))

BigDivSmall(x, d) == DivFrom(x, d, NLimbs, 0)

RECURSIVE Len2(_)
Len2(n) == IF n = 0 THEN 0 ELSE 1 + Len2(n \div 2)

RECURSIVE Pow2(_)
Pow2(n) == IF n = 0 THEN 1 ELSE 2 * Pow2(n - 1)

RECURSIVE TopLimb(_, _)
TopLimb(x, i) == IF i = 0 THEN 0 ELSE IF x[i] # 0 THEN i ELSE TopLimb(x, i - 1)

BitLen(x) ==
    Let(TopLimb(x, NLimbs),
        LAMBDA t : IF t = 0 THEN 0 ELSE LimbBits * (t - 1) + Len2(x[t]))

ShiftLimbsRight(x, a) == SubSeq(x, a + 1, NLimbs) \o SubSeq(Zero, 1, a)

ShiftLimbsLeft(x, a) == SubSeq(Zero, 1, a) \o SubSeq(x, 1, NLimbs - a)

LowLimbsZero(x, a) == \A i \in 1..a : x[i] = 0

\* x with its low a limbs and b further bits dropped, rounded to nearest, ties
\* to even; sticky tells that the exact value lies strictly above x.
RoundAt(x, a, b, sticky) ==
    Let(BigDivSmall(ShiftLimbsRight(x, a), Pow2(b)),
        LAMBDA d :
            LET roundBit == IF b > 0 THEN d.r >= Pow2(b - 1)
                                     ELSE x[a] >= Pow2(LimbBits - 1)
                rest == IF b > 0
                        THEN (d.r % Pow2(b - 1) # 0) \/ ~LowLimbsZero(x, a)
                        ELSE (x[a] % Pow2(LimbBits - 1) # 0) \/ ~LowLimbsZero(x, a - 1)
                up == roundBit /\ (rest \/ sticky \/ d.q[1] % 2 = 1)
            IN  Let(IF up THEN BigAdd(d.q, One) ELSE d.q,
                    LAMBDA q : ShiftLimbsLeft(BigMulSmall(q, Pow2(b)), a)))

\* Round to 53 significant bits.
Round53(x, sticky) ==
    Let(BitLen(x),
        LAMBDA n : IF n <= MantissaBits THEN x
                   ELSE RoundAt(x, (n - MantissaBits) \div LimbBits,
                                (n - MantissaBits) % LimbBits, sticky))

FromInt(n) == <<0, 0, 0, 0, 0, n % Base, (n \div Base) % Base, 0>>

\* a / b of two integer-valued numbers
FDiv(a, b) == Let(BigDivSmall(FromInt(a), b), LAMBDA d : Round53(d.q, d.r # 0))

\* x * k with k integer-valued
FMulInt(x, k) == Let(BigMulSmall(x, k), LAMBDA p : Round53(p, FALSE))

FAdd(x, y) == Let(BigAdd(x, y), LAMBDA s : Round53(s, FALSE))

\* Math.floor
FFloor(x) == x[FracLimbs + 1] + Base * x[FracLimbs + 2]

RECURSIVE LessFrom(_, _, _)
LessFrom(x, y, i) ==
    IF i = 0 THEN FALSE
    ELSE IF x[i] # y[i] THEN x[i] < y[i]
    ELSE LessFrom(x, y, i - 1)

FLess(x, y) == LessFrom(x, y, NLimbs)

Min(a, b) == IF a < b THEN a ELSE b

(***************************************************************************)
(* State.                                                                  *)
(***************************************************************************)
VARIABLES
    input,          \* the actor input read by Apify.main
    page,           \* the browser page: document height and scroll offset
    pc,             \* the await at which the run is suspended
    elapsedTime,    \* Apify.main's elapsedTime
    rec,            \* locals of record
    sd,             \* locals of scrollDownProcess
    captured,       \* number of screenshots taken; screenshot n has id n
    decoding,       \* ids of screenshots whose gifAddFrame has not finished
    gifFrames,      \* ids handed to gif.addFrame, in call order
    scrollByCalls,  \* number of window.scrollBy calls made in the page
    finishCalls,    \* number of gif.finish() calls
    chunks,         \* Apify.main's chunks: what the 'data' listener pushed
    headerCalls,    \* number of gif.writeHeader() calls
    endPending,     \* the encoder has finished and its 'end' event is yet to fire
    getGif,         \* the promise of getGifBuffer: listeners and settlement
    gifBuffer,      \* Apify.main's gifBuffer
    opts,           \* the input fields read by the click and delivery phases
    caught,         \* what the catch of the click phase caught
    comp,           \* locals of compressGif, kept after its return
    kvStore,        \* the key-value store: file name -> saved buffer
    toPushDataset,  \* Apify.main's toPushDataset
    dataset,        \* the records pushed with Apify.pushData
    browser,        \* Apify.main's browser: "open" once launched, and how close() went
    requests        \* the request last handed to the page's 'request' listener

\* the variables of the click, assembly and delivery phases
delivery == <<headerCalls, endPending, getGif, gifBuffer, opts, caught, comp, kvStore,
              toPushDataset, dataset>>

vars == <<input, page, pc, elapsedTime, rec, sd, captured, decoding, gifFrames,
          scrollByCalls, finishCalls, chunks, delivery, browser, requests>>

FrameRates == {6, 10}
RecordingTimes == {0, 1000, 1050}
GifTimes == {1000, MaxGifTime}
PageHeights == {viewportHeight, 900, MaxPageHeight}
ScrollTops == {0, 120}

NoRec == [i |-> 0, frames |-> Zero]

NoSd == [pageHeight |-> 0, scrolledTime |-> Zero, elapsedTime |-> Zero,
         scrolledUntil |-> 0, scrollTimes |-> 0, scrollAmount |-> 0]

\* the chunks the encoder emits through its 'data' event: the header written by
\* writeHeader, one image block per added frame, the trailer written by finish
HeaderChunk == <<71, 73, 70>>

FrameChunk(id) == <<44, id>>

TrailerChunk == <<59>>

\* gif.on('data', (chunk) => chunks.push(chunk))
OnDataUnshift(list, chunk) == <<chunk>> \o list

OnData(list, chunk) == Append(list, chunk)

RecordingTimesAfterClick == {0, 250}

NoOpts == [clickSelector |-> FALSE, recordingTimeAfterClick |-> 0,
           lossyCompression |-> FALSE, loslessCompression |-> FALSE]

NoGetGif == [listening |-> FALSE, ends |-> 0, settled |-> "pending"]

NoComp == [type |-> "none", attempt |-> 0, calls |-> 0, failures |-> 0,
           last |-> "none", given |-> <<>>, waits |-> <<>>,
           result |-> [defined |-> FALSE, bytes |-> <<>>],
           outcome |-> "none", called |-> {}, threw |-> {}]

NoDataset == [gifUrlOriginal |-> "undefined", gifUrlLossy |-> "undefined",
              gifUrlLosless |-> "undefined"]

\* The state with the page loaded, before the encoder is created; the page may
\* stand scrolled (a fragment URL), never past the end of the document.  The
\* input fields clickSelector, recordingTimeAfterClick, lossyCompression and
\* loslessCompression are used after the scroll phase only; their values are
\* drawn where the run first uses them.
Init ==
    /\ input \in [frameRate : FrameRates,
                  recordingTimeBeforeAction : RecordingTimes,
                  gifTime : GifTimes,
                  scrollDown : BOOLEAN]
    /\ page \in {p \in [pageHeight : PageHeights, scrollTop : ScrollTops,
                         animating : {FALSE}] :
                   p.scrollTop + viewportHeight <= p.pageHeight}
    /\ pc = "writeHeader"
    /\ elapsedTime = 0
    /\ rec = NoRec
    /\ sd = NoSd
    /\ captured = 0
    /\ decoding = {}
    /\ gifFrames = <<>>
    /\ scrollByCalls = 0
    /\ finishCalls = 0
    /\ chunks = <<>>
    /\ headerCalls = 0
    /\ endPending = FALSE
    /\ getGif = NoGetGif
    /\ gifBuffer = <<>>
    /\ opts = NoOpts
    /\ caught = "none"
    /\ comp = NoComp
    /\ kvStore = <<>>
    /\ toPushDataset = NoDataset
    /\ dataset = <<>>
    /\ browser = "open"
    /\ requests = <<>>

(***************************************************************************)
(* helper.js: one frame, shared by record and scrollDownProcess.           *)
(***************************************************************************)
\* await takeScreenshot(page) resolves; gifAddFrame is entered with the buffer.
takeScreenshot(next) ==
    /\ captured < MaxFrames
    /\ captured' = captured + 1
    /\ decoding' = decoding \cup {captured + 1}
    /\ pc' = next
    /\ UNCHANGED <<input, page, elapsedTime, rec, sd, gifFrames, chunks, scrollByCalls,
                   browser, requests, finishCalls, delivery>>

\* page.screenshot rejects: the caller's catch logs and rethrows.
takeScreenshotFails ==
    /\ pc' = "error"
    /\ rec' = NoRec
    /\ sd' = NoSd
    /\ UNCHANGED <<input, page, elapsedTime, captured, decoding, gifFrames, chunks,
                   scrollByCalls, browser, requests, finishCalls, delivery>>

\* await gifAddFrame(screenshotBuffer, gif) resolves: the PNG was parsed and
\* gif.addFrame(png.data) was called.
gifAddFrame(id) ==
    /\ id \in decoding
    /\ decoding' = decoding \ {id}
    /\ gifFrames' = Append(gifFrames, id)
    /\ chunks' = OnData(chunks, FrameChunk(id))

\* parsePngBuffer rejects: gifAddFrame logs and rethrows, nothing is appended.
gifAddFrameFails ==
    /\ decoding' = decoding \ {captured}
    /\ pc' = "error"
    /\ rec' = NoRec
    /\ sd' = NoSd
    /\ UNCHANGED <<input, page, elapsedTime, captured, gifFrames, chunks, scrollByCalls,
                   browser, requests,
                   finishCalls, delivery>>

(***************************************************************************)
(* helper.js: record                                                       *)
(***************************************************************************)
\* const frames = Math.floor((recordingTime / 1000) * frameRate)
Frames(recordingTime, frameRate) ==
    FromInt(FFloor(FMulInt(FDiv(recordingTime, 1000), frameRate)))

record_begin ==
    /\ pc = "record"
    /\ rec' = [i |-> 0,
               frames |-> Frames(input.recordingTimeBeforeAction, input.frameRate)]
    /\ pc' = "record_loop"
    /\ UNCHANGED <<input, page, elapsedTime, sd, captured, decoding, gifFrames, chunks,
                   scrollByCalls, browser, requests, finishCalls, delivery>>

record_loopAtLeastOnce ==
    /\ pc = "record_loop"
    /\ pc' = IF rec.i = 0 \/ FLess(FromInt(rec.i), rec.frames)
             THEN "record_takeScreenshot"
             ELSE "record_return"
    /\ UNCHANGED <<input, page, elapsedTime, rec, sd, captured, decoding, gifFrames, chunks,
                   scrollByCalls, browser, requests, finishCalls, delivery>>

record_loopShort ==
    /\ pc = "record_loop"
    /\ pc' = IF FLess(FromInt(rec.i + 1), rec.frames) THEN "record_takeScreenshot"
                                                      ELSE "record_return"
    /\ UNCHANGED <<input, page, elapsedTime, rec, sd, captured, decoding, gifFrames, chunks,
                   scrollByCalls, browser, requests, finishCalls, delivery>>

\* for (let i = 0; i < frames; i++)
record_loop ==
    /\ pc = "record_loop"
    /\ pc' = IF FLess(FromInt(rec.i), rec.frames) THEN "record_takeScreenshot"
                                                  ELSE "record_return"
    /\ UNCHANGED <<input, page, elapsedTime, rec, sd, captured, decoding, gifFrames, chunks,
                   scrollByCalls, browser, requests, finishCalls, delivery>>

record_takeScreenshot ==
    /\ pc = "record_takeScreenshot"
    /\ takeScreenshot("record_gifAddFrame")

record_takeScreenshotFails ==
    /\ pc = "record_takeScreenshot"
    /\ takeScreenshotFails

record_gifAddFrame ==
    /\ pc = "record_gifAddFrame"
    /\ gifAddFrame(captured)
    /\ rec' = [rec EXCEPT !.i = rec.i + 1]
    /\ pc' = "record_loop"
    /\ UNCHANGED <<input, page, elapsedTime, sd, captured, scrollByCalls, browser,
                   requests, finishCalls, delivery>>

record_gifAddFrameFails ==
    /\ pc = "record_gifAddFrame"
    /\ gifAddFrameFails

(***************************************************************************)
(* helper.js: getScrollParameters and scrollDownProcess                    *)
(***************************************************************************)
\* scrolledTime: 1000 / frameRate
scrolledTime(frameRate) == FDiv(1000, frameRate)

RandomVariationNoMin(u) == (u * maxVariation) \div RandomDen

\* Math.floor(Math.random() * (maxVariation - minVariation)), with
\* Math.random() = u / RandomDen for u in 0 .. RandomDen - 1
RandomVariation(u) == (u * (maxVariation - minVariation)) \div RandomDen

\* const scrollAmount = config.scrollTimes > config.maxScrolls && ... ? 0 : ...
ScrollAmount(scrollTimes, u) ==
    IF scrollTimes > maxScrolls /\ scrollTimes % (maxScrolls + waitScrolls) >= maxScrolls
    THEN 0
    ELSE minVariation + RandomVariation(u)

\* const easeOutCubic = (t) => 1 - Math.pow(1 - t, 3), on the quotient
\* t.num / t.den
easeOutCubic(t) ==
    [num |-> t.den * t.den * t.den
               - (t.den - t.num) * (t.den - t.num) * (t.den - t.num),
     den |-> t.den * t.den * t.den]

\* the head of the loop body: progress and easedProgress are computed, then
\* scrollAmount is; the expression of scrollAmount reads neither of them
ScrollDecision(s, u) ==
    LET progress == [num |-> s.scrolledUntil, den |-> s.pageHeight]
        easedProgress == easeOutCubic(progress)
    IN  ScrollAmount(s.scrollTimes, u)

LoopGuardViewport(s) ==
    /\ s.pageHeight > s.scrolledUntil + viewportHeight
    /\ FLess(s.elapsedTime, FromInt(input.gifTime))

LoopGuardOr(s) ==
    \/ s.pageHeight > s.scrolledUntil
    \/ FLess(s.elapsedTime, FromInt(input.gifTime))

\* while (pageHeight > config.scrolledUntil && gifTime > elapsedTime)
LoopGuard(s) ==
    /\ s.pageHeight > s.scrolledUntil
    /\ FLess(s.elapsedTime, FromInt(input.gifTime))

scroll_getScrollParameters ==
    /\ pc = "scrollDownProcess"
    /\ sd' = [pageHeight |-> page.pageHeight,
              scrolledTime |-> scrolledTime(input.frameRate),
              elapsedTime |-> FromInt(elapsedTime),
              scrolledUntil |-> viewportHeight + page.scrollTop,
              scrollTimes |-> 0,
              scrollAmount |-> 0]
    /\ pc' = "scroll_loop"
    /\ UNCHANGED <<input, page, elapsedTime, rec, captured, decoding, gifFrames, chunks,
                   scrollByCalls, browser, requests, finishCalls, delivery>>

scroll_iterate ==
    /\ pc = "scroll_loop"
    /\ LoopGuard(sd)
    /\ \E u \in 0..(RandomDen - 1) :
          sd' = [sd EXCEPT !.scrollAmount = ScrollDecision(sd, u)]
    /\ pc' = "scroll_takeScreenshot"
    /\ UNCHANGED <<input, page, elapsedTime, rec, captured, decoding, gifFrames, chunks,
                   scrollByCalls, browser, requests, finishCalls, delivery>>

scroll_exit ==
    /\ pc = "scroll_loop"
    /\ ~LoopGuard(sd)
    /\ pc' = "scroll_return"
    /\ UNCHANGED <<input, page, elapsedTime, rec, sd, captured, decoding, gifFrames, chunks,
                   scrollByCalls, browser, requests, finishCalls, delivery>>

scroll_takeScreenshot ==
    /\ pc = "scroll_takeScreenshot"
    /\ takeScreenshot("scroll_gifAddFrame")

scroll_takeScreenshotFails ==
    /\ pc = "scroll_takeScreenshot"
    /\ takeScreenshotFails

scroll_gifAddFrame ==
    /\ pc = "scroll_gifAddFrame"
    /\ gifAddFrame(captured)
    /\ pc' = "scroll_scrollBy"
    /\ UNCHANGED <<input, page, elapsedTime, rec, sd, captured, scrollByCalls, browser,
                   requests, finishCalls, delivery>>

scroll_gifAddFrameFails ==
    /\ pc = "scroll_gifAddFrame"
    /\ gifAddFrameFails

\* window.scrollBy({ top: amount }): the browser keeps the offset within the document
ScrollBy(p, amount) ==
    [p EXCEPT !.scrollTop = Min(p.scrollTop + amount, p.pageHeight - viewportHeight)]

\* window.scrollBy({ top: amount, behavior: 'smooth' }) returns at once; the
\* page moves to the new offset in an animation that runs on after the call
SmoothScrollBy(p, amount) ==
    [ScrollBy(p, amount) EXCEPT
        !.animating = p.animating \/ ScrollBy(p, amount).scrollTop # p.scrollTop]

\* await page.evaluate(... window.scrollBy ...) resolves
scroll_scrollBy ==
    /\ pc = "scroll_scrollBy"
    /\ page' = SmoothScrollBy(page, sd.scrollAmount)
    /\ scrollByCalls' = scrollByCalls + 1
    /\ pc' = "scroll_settle"
    /\ UNCHANGED <<browser, requests, input, elapsedTime, rec, sd, captured, decoding,
                   gifFrames, chunks, finishCalls, delivery>>

\* page.evaluate rejects
scroll_scrollByFails ==
    /\ pc = "scroll_scrollBy"
    /\ pc' = "error"
    /\ sd' = NoSd
    /\ UNCHANGED <<input, page, elapsedTime, rec, captured, decoding, gifFrames, chunks,
                   scrollByCalls, browser, requests, finishCalls, delivery>>

scroll_settleAssign ==
    /\ pc = "scroll_settle"
    /\ sd' = [sd EXCEPT !.scrolledUntil = sd.scrollAmount,
                        !.elapsedTime = FAdd(sd.elapsedTime, sd.scrolledTime),
                        !.scrollTimes = sd.scrollTimes + 1]
    /\ pc' = "scroll_loop"
    /\ UNCHANGED <<input, page, elapsedTime, rec, captured, decoding, gifFrames, chunks,
                   scrollByCalls, browser, requests, finishCalls, delivery>>

\* the settle timeout fires; the loop state is advanced
scroll_settle ==
    /\ pc = "scroll_settle"
    /\ sd' = [sd EXCEPT !.scrolledUntil = sd.scrolledUntil + sd.scrollAmount,
                        !.elapsedTime = FAdd(sd.elapsedTime, sd.scrolledTime),
                        !.scrollTimes = sd.scrollTimes + 1]
    /\ pc' = "scroll_loop"
    /\ UNCHANGED <<input, page, elapsedTime, rec, captured, decoding, gifFrames, chunks,
                   scrollByCalls, browser, requests, finishCalls, delivery>>

(***************************************************************************)
(* main.js: Apify.main from the creation of the encoder to the end of the  *)
(* scroll phase.                                                           *)
(***************************************************************************)
\* the variables of the recording phases
recording == <<input, page, elapsedTime, rec, sd, captured, decoding, gifFrames, requests,
               scrollByCalls>>

\* gif = new GifEncoder(...); gif.on('data', ...); gif.writeHeader()
main_writeHeader ==
    /\ pc = "writeHeader"
    /\ headerCalls' = headerCalls + 1
    /\ chunks' = OnData(chunks, HeaderChunk)
    /\ pc' = "record"
    /\ UNCHANGED <<recording, browser, finishCalls, endPending, getGif, gifBuffer, opts,
                   caught,
                   comp, kvStore, toPushDataset, dataset>>

\* await record(...) returned: elapsedTime += recordingTimeBeforeAction; if (scrollDown)
main_afterRecord ==
    /\ pc = "record_return"
    /\ elapsedTime' = elapsedTime + input.recordingTimeBeforeAction
    /\ rec' = NoRec
    /\ pc' = IF input.scrollDown THEN "scrollDownProcess" ELSE "click"
    /\ UNCHANGED <<input, page, sd, captured, decoding, gifFrames, chunks, scrollByCalls,
                   browser, requests,
                   finishCalls, delivery>>

main_afterScrollFinish ==
    /\ pc = "scroll_return"
    /\ sd' = NoSd
    /\ finishCalls' = finishCalls + 1
    /\ pc' = "click"
    /\ UNCHANGED <<input, page, elapsedTime, rec, captured, decoding, gifFrames, chunks,
                   scrollByCalls, browser, requests, delivery>>

\* await scrollDownProcess(...) returned
main_afterScroll ==
    /\ pc = "scroll_return"
    /\ sd' = NoSd
    /\ pc' = "click"
    /\ UNCHANGED <<input, page, elapsedTime, rec, captured, decoding, gifFrames, chunks,
                   scrollByCalls, browser, requests, finishCalls, delivery>>

(***************************************************************************)
(* main.js: the click phase.  Everything inside its try block that throws  *)
(* is caught by the catch of line 177, which logs and lets the run go on.  *)
(***************************************************************************)
\* if (clickSelector): clickSelector is read
main_clickSelector ==
    /\ pc = "click"
    /\ \E sel \in BOOLEAN :
          /\ opts' = [opts EXCEPT !.clickSelector = sel]
          /\ pc' = IF sel THEN "click_waitForSelector" ELSE "finish"
    /\ UNCHANGED <<recording, browser, finishCalls, chunks, headerCalls, endPending, getGif,
                   gifBuffer, caught, comp, kvStore, toPushDataset, dataset>>

\* await page.waitForSelector(clickSelector, { timeout: 5000 }) resolves
click_waitForSelector ==
    /\ pc = "click_waitForSelector"
    /\ pc' = "click_click"
    /\ UNCHANGED <<recording, browser, finishCalls, chunks, delivery>>

\* page.waitForSelector rejects
click_waitForSelectorFails ==
    /\ pc = "click_waitForSelector"
    /\ caught' = "waitForSelector"
    /\ pc' = "finish"
    /\ UNCHANGED <<recording, browser, finishCalls, chunks, headerCalls, endPending, getGif,
                   gifBuffer, opts, comp, kvStore, toPushDataset, dataset>>

\* await page.click(clickSelector) resolves; if (recordingTimeAfterClick):
\* recordingTimeAfterClick is read
click_click ==
    /\ pc = "click_click"
    /\ \E t \in RecordingTimesAfterClick :
          /\ opts' = [opts EXCEPT !.recordingTimeAfterClick = t]
          /\ pc' = IF t # 0 THEN "click_record" ELSE "finish"
    /\ UNCHANGED <<recording, browser, finishCalls, chunks, headerCalls, endPending, getGif,
                   gifBuffer, caught, comp, kvStore, toPushDataset, dataset>>

\* page.click rejects
click_clickFails ==
    /\ pc = "click_click"
    /\ caught' = "click"
    /\ pc' = "finish"
    /\ UNCHANGED <<recording, browser, finishCalls, chunks, headerCalls, endPending, getGif,
                   gifBuffer, opts, comp, kvStore, toPushDataset, dataset>>

\* record(page, gif, recordingTimeAfterClick, frameRate) is entered
click_record_begin ==
    /\ pc = "click_record"
    /\ rec' = [i |-> 0, frames |-> Frames(opts.recordingTimeAfterClick, input.frameRate)]
    /\ pc' = "click_record_loop"
    /\ UNCHANGED <<input, page, elapsedTime, sd, captured, decoding, gifFrames, chunks,
                   scrollByCalls, browser, requests, finishCalls, delivery>>

\* for (let i = 0; i < frames; i++); after the loop record returns to the try block
click_record_loop ==
    /\ pc = "click_record_loop"
    /\ IF FLess(FromInt(rec.i), rec.frames)
       THEN pc' = "click_record_takeScreenshot" /\ rec' = rec
       ELSE pc' = "finish" /\ rec' = NoRec
    /\ UNCHANGED <<input, page, elapsedTime, sd, captured, decoding, gifFrames, chunks,
                   scrollByCalls, browser, requests, finishCalls, delivery>>

click_record_takeScreenshot ==
    /\ pc = "click_record_takeScreenshot"
    /\ takeScreenshot("click_record_gifAddFrame")

\* page.screenshot rejects: record logs and rethrows, the catch of the click
\* phase logs
click_record_takeScreenshotFails ==
    /\ pc = "click_record_takeScreenshot"
    /\ caught' = "capture"
    /\ rec' = NoRec
    /\ pc' = "finish"
    /\ UNCHANGED <<input, page, elapsedTime, sd, captured, decoding, gifFrames, chunks,
                   scrollByCalls, browser, requests, finishCalls, headerCalls, endPending,
                   getGif, gifBuffer,
                   opts, comp, kvStore, toPushDataset, dataset>>

click_record_gifAddFrame ==
    /\ pc = "click_record_gifAddFrame"
    /\ gifAddFrame(captured)
    /\ rec' = [rec EXCEPT !.i = rec.i + 1]
    /\ pc' = "click_record_loop"
    /\ UNCHANGED <<input, page, elapsedTime, sd, captured, scrollByCalls, browser,
                   requests, finishCalls,
                   delivery>>

\* parsePngBuffer rejects: gifAddFrame and record log and rethrow, the catch of
\* the click phase logs
click_record_gifAddFrameFails ==
    /\ pc = "click_record_gifAddFrame"
    /\ decoding' = decoding \ {captured}
    /\ caught' = "decode"
    /\ rec' = NoRec
    /\ pc' = "finish"
    /\ UNCHANGED <<input, page, elapsedTime, sd, captured, gifFrames, chunks,
                   scrollByCalls, browser, requests, finishCalls, headerCalls, endPending,
                   getGif, gifBuffer,
                   opts, comp, kvStore, toPushDataset, dataset>>

(***************************************************************************)
(* main.js: closing the encoder; helper.js: getGifBuffer.                  *)
(* The encoder is a readable stream: finish() writes the trailer, which    *)
(* reaches the 'data' listener, and ends the stream; the 'end' event is    *)
(* emitted in a later turn of the event loop, once.  A finish() on the     *)
(* ended stream delivers nothing more to the listeners.                    *)
(***************************************************************************)
RECURSIVE BufferConcat(_)
\* Buffer.concat(chunks)
BufferConcat(list) ==
    IF list = <<>> THEN <<>> ELSE Head(list) \o BufferConcat(Tail(list))

main_finishNoListener ==
    /\ pc = "finish"
    /\ browser' = "closed"
    /\ finishCalls' = finishCalls + 1
    /\ chunks' = OnData(chunks, TrailerChunk)
    /\ endPending' = TRUE
    /\ pc' = "getGifBuffer"
    /\ UNCHANGED <<recording, headerCalls, getGif, gifBuffer, opts, caught, comp, kvStore,
                   toPushDataset, dataset>>

\* await browser.close() resolves; gif.finish(); getGifBuffer(gif, chunks)
\* registers its 'end' and 'error' listeners in the same turn and is awaited
main_finish ==
    /\ pc = "finish"
    /\ browser' = "closed"
    /\ finishCalls' = finishCalls + 1
    /\ chunks' = OnData(chunks, TrailerChunk)
    /\ endPending' = TRUE
    /\ getGif' = [getGif EXCEPT !.listening = TRUE]
    /\ pc' = "getGifBuffer"
    /\ UNCHANGED <<recording, headerCalls, gifBuffer, opts, caught, comp, kvStore,
                   toPushDataset, dataset>>

\* browser.close() of line 183 rejects
main_closeFails ==
    /\ pc = "finish"
    /\ browser' = "closeRejected"
    /\ pc' = "error"
    /\ UNCHANGED <<recording, finishCalls, chunks, delivery>>

\* the 'end' event reaches the listener of getGifBuffer:
\* resolve(Buffer.concat(chunks)), and the await of line 186 returns
gif_end ==
    /\ endPending
    /\ getGif.listening
    /\ endPending' = FALSE
    /\ getGif' = [getGif EXCEPT !.ends = getGif.ends + 1, !.settled = "resolved"]
    /\ gifBuffer' = IF getGif.settled = "pending" THEN BufferConcat(chunks) ELSE gifBuffer
    /\ pc' = IF pc = "getGifBuffer" THEN "saveOriginal" ELSE pc
    /\ UNCHANGED <<recording, browser, finishCalls, chunks, headerCalls, opts, caught, comp,
                   kvStore, toPushDataset, dataset>>

(***************************************************************************)
(* helper.js: compressGif.                                                 *)
(***************************************************************************)
\* what the plugin chosen by selectPlugin makes of a gif: a gif of its own
Transcode(buffer, compressionType) ==
    HeaderChunk \o <<IF compressionType = "losless" THEN 3 ELSE 80>> \o TrailerChunk

\* the values imagemin.buffer can resolve with
ImageminResults(buffer, compressionType) ==
    {[defined |-> TRUE, bytes |-> Transcode(buffer, compressionType)],
     [defined |-> TRUE, bytes |-> <<>>],
     [defined |-> FALSE, bytes |-> <<>>]}

IsEmptyResultUndefinedOnly(r) == ~r.defined

\* if (!compressedBuffer || compressedBuffer.length === 0)
IsEmptyResult(r) == ~r.defined \/ Len(r.bytes) = 0

LastAttemptEarly(attempt) == attempt >= maxRetries - 1

\* if (attempt === maxRetries)
LastAttempt(attempt) == attempt = maxRetries

\* Math.pow(2, attempt) * 1000
Backoff(attempt) == Pow2(attempt) * 1000

\* compressGif(gifBuffer, type) is entered: attempt = 1
StartCompress(compressionType) ==
    [NoComp EXCEPT !.type = compressionType, !.attempt = 1, !.outcome = "running",
                   !.called = comp.called \cup {compressionType}, !.threw = comp.threw]

\* the catch of an attempt: after the last attempt compressGif throws, which
\* the catch of line 219 logs and rethrows; otherwise the backoff timer is set
compress_catch(c) ==
    IF LastAttempt(c.attempt)
    THEN /\ comp' = [c EXCEPT !.failures = c.failures + 1, !.outcome = "threw",
                              !.threw = c.threw \cup {c.type}]
         /\ pc' = "error"
    ELSE /\ comp' = [c EXCEPT !.failures = c.failures + 1,
                              !.waits = Append(c.waits, Backoff(c.attempt))]
         /\ pc' = "compress_wait"

\* await imagemin.buffer(gifBuffer, ...) resolves
compress_imageminResolves ==
    /\ pc = "compress_attempt"
    /\ \E r \in ImageminResults(gifBuffer, comp.type) :
          LET c == [comp EXCEPT !.calls = comp.calls + 1,
                                !.given = Append(comp.given, gifBuffer),
                                !.last = IF r.defined /\ r.bytes # <<>> THEN "ok"
                                                                      ELSE "empty",
                                !.result = r]
          IN  IF IsEmptyResult(r)
              THEN compress_catch(c)
              ELSE /\ comp' = [c EXCEPT !.outcome = "returned"]
                   /\ pc' = "save_compressed"
    /\ UNCHANGED <<recording, browser, finishCalls, chunks, headerCalls, endPending, getGif,
                   gifBuffer, opts, caught, kvStore, toPushDataset, dataset>>

\* imagemin.buffer rejects
compress_imageminRejects ==
    /\ pc = "compress_attempt"
    /\ compress_catch([comp EXCEPT !.calls = comp.calls + 1,
                                   !.given = Append(comp.given, gifBuffer),
                                   !.last = "error"])
    /\ UNCHANGED <<recording, browser, finishCalls, chunks, headerCalls, endPending, getGif,
                   gifBuffer, opts, caught, kvStore, toPushDataset, dataset>>

compress_waitReassign ==
    /\ pc = "compress_wait"
    /\ comp' = [comp EXCEPT !.attempt = comp.attempt + 1]
    /\ gifBuffer' = comp.result.bytes
    /\ pc' = "compress_attempt"
    /\ UNCHANGED <<recording, browser, finishCalls, chunks, headerCalls, endPending, getGif,
                   opts, caught, kvStore, toPushDataset, dataset>>

\* the backoff timer fires: attempt++
compress_wait ==
    /\ pc = "compress_wait"
    /\ comp' = [comp EXCEPT !.attempt = comp.attempt + 1]
    /\ pc' = "compress_attempt"
    /\ UNCHANGED <<recording, browser, finishCalls, chunks, headerCalls, endPending, getGif,
                   gifBuffer, opts, caught, kvStore, toPushDataset, dataset>>

(***************************************************************************)
(* main.js: saving and reporting the artifacts, and cleanup.               *)
(***************************************************************************)
\* await saveGif(filenameOrig, gifBuffer) resolves; toPushDataset.gifUrlOriginal
\* is set; lossyCompression and loslessCompression are read
main_saveOriginal ==
    /\ pc = "saveOriginal"
    /\ \E lossy \in BOOLEAN, losless \in BOOLEAN :
          opts' = [opts EXCEPT !.lossyCompression = lossy,
                               !.loslessCompression = losless]
    /\ kvStore' = Append(kvStore, [key |-> "original", value |-> gifBuffer])
    /\ toPushDataset' = [toPushDataset EXCEPT !.gifUrlOriginal = "original"]
    /\ pc' = "lossy"
    /\ UNCHANGED <<recording, browser, finishCalls, chunks, headerCalls, endPending, getGif,
                   gifBuffer, caught, comp, dataset>>

\* saveGif rejects: the catch of line 219 logs and rethrows
main_saveOriginalFails ==
    /\ pc = "saveOriginal"
    /\ pc' = "error"
    /\ UNCHANGED <<recording, browser, finishCalls, chunks, delivery>>

\* if (lossyCompression) compressGif(gifBuffer, 'lossy')
main_lossyCompression ==
    /\ pc = "lossy"
    /\ IF opts.lossyCompression
       THEN comp' = StartCompress("lossy") /\ pc' = "compress_attempt"
       ELSE comp' = comp /\ pc' = "losless"
    /\ UNCHANGED <<recording, browser, finishCalls, chunks, headerCalls, endPending, getGif,
                   gifBuffer, opts, caught, kvStore, toPushDataset, dataset>>

main_loslessCompressionTied ==
    /\ pc = "losless"
    /\ IF opts.lossyCompression
       THEN comp' = StartCompress("losless") /\ pc' = "compress_attempt"
       ELSE comp' = comp /\ pc' = "pushData"
    /\ UNCHANGED <<recording, browser, finishCalls, chunks, headerCalls, endPending, getGif,
                   gifBuffer, opts, caught, kvStore, toPushDataset, dataset>>

\* if (loslessCompression) compressGif(gifBuffer, 'losless')
main_loslessCompression ==
    /\ pc = "losless"
    /\ IF opts.loslessCompression
       THEN comp' = StartCompress("losless") /\ pc' = "compress_attempt"
       ELSE comp' = comp /\ pc' = "pushData"
    /\ UNCHANGED <<recording, browser, finishCalls, chunks, headerCalls, endPending, getGif,
                   gifBuffer, opts, caught, kvStore, toPushDataset, dataset>>

\* compressGif returned: await saveGif(filename, buffer) resolves and the
\* locator is set in toPushDataset
main_saveCompressed ==
    /\ pc = "save_compressed"
    /\ kvStore' = Append(kvStore, [key |-> comp.type, value |-> comp.result.bytes])
    /\ toPushDataset' = IF comp.type = "lossy"
                        THEN [toPushDataset EXCEPT !.gifUrlLossy = "lossy"]
                        ELSE [toPushDataset EXCEPT !.gifUrlLosless = "losless"]
    /\ pc' = IF comp.type = "lossy" THEN "losless" ELSE "pushData"
    /\ UNCHANGED <<recording, browser, finishCalls, chunks, headerCalls, endPending, getGif,
                   gifBuffer, opts, caught, comp, dataset>>

main_saveCompressedFails ==
    /\ pc = "save_compressed"
    /\ pc' = "error"
    /\ UNCHANGED <<recording, browser, finishCalls, chunks, delivery>>

\* await Apify.pushData(toPushDataset)
main_pushData ==
    /\ pc = "pushData"
    /\ dataset' = Append(dataset, toPushDataset)
    /\ pc' = "cleanup"
    /\ UNCHANGED <<recording, browser, finishCalls, chunks, headerCalls, endPending, getGif,
                   gifBuffer, opts, caught, comp, kvStore, toPushDataset>>

\* gif.finish(): the first call writes the trailer and ends the stream
gif_finish ==
    /\ finishCalls' = finishCalls + 1
    /\ chunks' = IF finishCalls = 0 THEN OnData(chunks, TrailerChunk) ELSE chunks
    /\ endPending' = (endPending \/ finishCalls = 0)

\* finally { await cleanup(browser, gif) } after the try block completed:
\* browser.close() resolves, gif.finish()
main_cleanup ==
    /\ pc = "cleanup"
    /\ browser' = "closed"
    /\ gif_finish
    /\ pc' = "done"
    /\ UNCHANGED <<recording, headerCalls, getGif, gifBuffer, opts, caught, comp, kvStore,
                   toPushDataset, dataset>>

\* browser.close() rejects in cleanup: its catch logs, gif.finish() is skipped
main_cleanupCloseFails ==
    /\ pc = "cleanup"
    /\ browser' = IF browser = "closed" THEN "closed" ELSE "closeRejected"
    /\ pc' = "done"
    /\ UNCHANGED <<recording, finishCalls, chunks, delivery>>

\* catch (error) { log; throw } finally { await cleanup(browser, gif) }:
\* browser.close() resolves, gif.finish()
main_error ==
    /\ pc = "error"
    /\ browser' = "closed"
    /\ gif_finish
    /\ pc' = "failed"
    /\ UNCHANGED <<recording, headerCalls, getGif, gifBuffer, opts, caught, comp, kvStore,
                   toPushDataset, dataset>>

\* the same with browser.close() rejecting in cleanup
main_errorCloseFails ==
    /\ pc = "error"
    /\ browser' = IF browser = "closed" THEN "closed" ELSE "closeRejected"
    /\ pc' = "failed"
    /\ UNCHANGED <<recording, finishCalls, chunks, delivery>>

\* the recording and scroll phases, and the failure of the run
Next ==
    \/ main_writeHeader
    \/ record_begin
    \/ record_loop
    \/ record_takeScreenshot
    \/ record_takeScreenshotFails
    \/ record_gifAddFrame
    \/ record_gifAddFrameFails
    \/ main_afterRecord
    \/ scroll_getScrollParameters
    \/ scroll_iterate
    \/ scroll_exit
    \/ scroll_takeScreenshot
    \/ scroll_takeScreenshotFails
    \/ scroll_gifAddFrame
    \/ scroll_gifAddFrameFails
    \/ scroll_scrollBy
    \/ scroll_scrollByFails
    \/ scroll_settle
    \/ main_afterScroll
    \/ main_error

Spec == Init /\ [][Next]_vars

\* Every await of the run settles: the event loop runs the continuation.
FairSpec == Spec /\ WF_vars(Next)

\* The whole pipeline: recording, scroll, click, assembly, compression and
\* delivery.  The runs that are followed have a gifTime of one second.
InitPipeline ==
    /\ Init
    /\ input.gifTime = 1000

NextPipeline ==
    \/ Next
    \/ main_clickSelector
    \/ click_waitForSelector
    \/ click_waitForSelectorFails
    \/ click_click
    \/ click_clickFails
    \/ click_record_begin
    \/ click_record_loop
    \/ click_record_takeScreenshot
    \/ click_record_takeScreenshotFails
    \/ click_record_gifAddFrame
    \/ click_record_gifAddFrameFails
    \/ main_finish
    \/ main_closeFails
    \/ gif_end
    \/ main_saveOriginal
    \/ main_saveOriginalFails
    \/ main_lossyCompression
    \/ compress_imageminResolves
    \/ compress_imageminRejects
    \/ compress_wait
    \/ main_saveCompressed
    \/ main_saveCompressedFails
    \/ main_loslessCompression
    \/ main_pushData
    \/ main_cleanup
    \/ main_cleanupCloseFails
    \/ main_errorCloseFails

SpecPipeline == InitPipeline /\ [][NextPipeline]_vars

FairSpecPipeline == SpecPipeline /\ WF_vars(NextPipeline)

(***************************************************************************)
(* The smooth scroll of helper.js:111-114 in the page.  The browser ends    *)
(* the animation on its own schedule; nothing in scrollDownProcess waits   *)
(* for it, the loop only sleeps 50..150 ms (helper.js:117).                *)
(***************************************************************************)
\* the page reaches the offset asked for: the scroll animation is over
page_scrollEnd ==
    /\ page.animating
    /\ page' = [page EXCEPT !.animating = FALSE]
    /\ UNCHANGED <<input, pc, elapsedTime, rec, sd, captured, decoding, gifFrames,
                   scrollByCalls, finishCalls, chunks, delivery, browser, requests>>

\* the recording and scroll phases with the page's scroll animation
NextSmooth ==
    \/ Next
    \/ page_scrollEnd

SpecSmooth == InitPipeline /\ [][NextSmooth]_vars

(***************************************************************************)
(* Two calls of scrollDownProcess side by side, a and b: the same page,    *)
(* the same input but for scrollPercentage, and the same value of          *)
(* Math.random() in each iteration.  sd holds the two loop states; a whole *)
(* iteration (screenshot, frame, scrollBy, settle, update) is one step.    *)
(***************************************************************************)
ScrollPercentages == {50, 100}

\* scrollByAmount: Math.round((viewportHeight * scrollPercentage) / 100)
ScrollByAmount(scrollPercentage) ==
    (2 * viewportHeight * scrollPercentage + 100) \div 200

\* getScrollParameters and the config object of scrollDownProcess, with the
\* frames appended and the page offset of this call
ScrollConfig(scrollPercentage) ==
    [pageHeight |-> page.pageHeight,
     scrolledTime |-> scrolledTime(input.frameRate),
     elapsedTime |-> FromInt(elapsedTime),
     scrolledUntil |-> viewportHeight + page.scrollTop,
     scrollTimes |-> 0,
     scrollAmount |-> 0,
     baseScrollAmount |-> ScrollByAmount(scrollPercentage),
     frames |-> Len(gifFrames),
     scrollTop |-> page.scrollTop,
     running |-> TRUE]

scroll_iterationByPercentage(s, u) ==
    IF s.running /\ LoopGuard(s)
    THEN [s EXCEPT !.scrollAmount = IF ScrollDecision(s, u) = 0 THEN 0 ELSE s.baseScrollAmount,
                   !.frames = s.frames + 1,
                   !.scrollTop = Min(s.scrollTop + s.baseScrollAmount, s.pageHeight - viewportHeight),
                   !.scrolledUntil = s.scrolledUntil + s.baseScrollAmount,
                   !.elapsedTime = FAdd(s.elapsedTime, s.scrolledTime),
                   !.scrollTimes = s.scrollTimes + 1]
    ELSE [s EXCEPT !.running = FALSE]

\* the loop test and one iteration of the while loop on the loop state s, with
\* Math.random() = u / RandomDen
scroll_iteration(s, u) ==
    IF s.running /\ LoopGuard(s)
    THEN LET amount == ScrollDecision(s, u)
         IN  [s EXCEPT !.scrollAmount = amount,
                       !.frames = s.frames + 1,
                       !.scrollTop = Min(s.scrollTop + amount, s.pageHeight - viewportHeight),
                       !.scrolledUntil = s.scrolledUntil + amount,
                       !.elapsedTime = FAdd(s.elapsedTime, s.scrolledTime),
                       !.scrollTimes = s.scrollTimes + 1]
    ELSE [s EXCEPT !.running = FALSE]

twin_getScrollParameters ==
    /\ pc = "scrollDownProcess"
    /\ \E pa \in ScrollPercentages, pb \in ScrollPercentages :
          /\ pa < pb
          /\ sd' = [a |-> ScrollConfig(pa), b |-> ScrollConfig(pb)]
    /\ pc' = "twin_loop"
    /\ UNCHANGED <<input, page, elapsedTime, rec, captured, decoding, gifFrames, chunks,
                   scrollByCalls, browser, requests, finishCalls, delivery>>

twin_iterate ==
    /\ pc = "twin_loop"
    /\ sd.a.running \/ sd.b.running
    /\ \E u \in 0..(RandomDen - 1) :
          sd' = [a |-> scroll_iteration(sd.a, u), b |-> scroll_iteration(sd.b, u)]
    /\ UNCHANGED <<input, page, pc, elapsedTime, rec, captured, decoding, gifFrames, chunks,
                   scrollByCalls, browser, requests, finishCalls, delivery>>

\* both calls have returned
twin_return ==
    /\ pc = "twin_loop"
    /\ ~sd.a.running
    /\ ~sd.b.running
    /\ pc' = "twin_return"
    /\ UNCHANGED <<input, page, elapsedTime, rec, sd, captured, decoding, gifFrames, chunks,
                   scrollByCalls, browser, requests, finishCalls, delivery>>

NextTwin ==
    \/ main_writeHeader
    \/ record_begin
    \/ record_loop
    \/ record_takeScreenshot
    \/ record_gifAddFrame
    \/ main_afterRecord
    \/ twin_getScrollParameters
    \/ twin_iterate
    \/ twin_return

\* the runs that are followed scroll, at 6 frames per second, for the longer
\* gifTime: their loops go through scrolling and paused iterations
InitTwin ==
    /\ Init
    /\ input.scrollDown
    /\ input.frameRate = 6
    /\ input.gifTime = MaxGifTime

SpecTwin == InitTwin /\ [][NextTwin]_vars

(***************************************************************************)
(* main.js:39-141: the run from Apify.getInput() to the loaded page.  A    *)
(* field of the input is undefined or a number; url is given by the length *)
(* of its string.  input.given keeps the record Apify.getInput() returned. *)
(***************************************************************************)
Undefined == [defined |-> FALSE, value |-> 0]

Given(n) == [defined |-> TRUE, value |-> n]

GivenInputs ==
    [url : {Undefined, Given(0), Given(11)},
     viewportHeight : {Undefined} \cup {Given(n) : n \in {0, 99, 100, viewportHeight, 4000, 4001}},
     viewportWidth : {Undefined, Given(0), Given(1366)},
     frameRate : {Undefined} \cup {Given(n) : n \in {0, 1, 6, 60, 61}}]

\* a destructuring default: it applies to an undefined field only
Default(v, d) == IF v.defined THEN v ELSE Given(d)

\* const { url, viewportHeight = 768, viewportWidth = 1366, frameRate = 10 } = input
Destructure(given) ==
    [url |-> given.url,
     viewportHeight |-> Default(given.viewportHeight, viewportHeight),
     viewportWidth |-> Default(given.viewportWidth, 1366),
     frameRate |-> Default(given.frameRate, 10)]

\* !config[key]
Falsy(v) == ~v.defined \/ v.value = 0

validateConfigNoFrameRateRange(config) ==
    LET required == <<"url", "viewportHeight", "viewportWidth", "frameRate">>
        missing == SelectSeq(required, LAMBDA key : Falsy(config[key]))
    IN  IF Len(missing) > 0 THEN "Missing required configuration"
        ELSE IF config.viewportHeight.value < 100 \/ config.viewportHeight.value > 4000
             THEN "Invalid viewport height"
             ELSE "accepted"

\* validateConfig: the error it throws, or "accepted" when it returns
validateConfig(config) ==
    LET required == <<"url", "viewportHeight", "viewportWidth", "frameRate">>
        missing == SelectSeq(required, LAMBDA key : Falsy(config[key]))
    IN  IF Len(missing) > 0 THEN "Missing required configuration"
        ELSE IF config.viewportHeight.value < 100 \/ config.viewportHeight.value > 4000
             THEN "Invalid viewport height"
             ELSE IF config.frameRate.value < 1 \/ config.frameRate.value > 60
                  THEN "Invalid frame rate"
                  ELSE "accepted"

\* The state before Apify.getInput() resolves: no browser, no encoder.  The
\* page is the document the url will load.  Scrolling runs are followed for
\* the viewport height the scroll model is written for.
InitSetup ==
    /\ input \in {i \in [given : GivenInputs,
                          frameRate : {0},
                          recordingTimeBeforeAction : {0, 1000},
                          gifTime : {1000},
                          scrollDown : BOOLEAN] :
                    i.scrollDown =>
                        Destructure(i.given).viewportHeight.value = viewportHeight}
    /\ page = [pageHeight |-> 900, scrollTop |-> 0, animating |-> FALSE]
    /\ pc = "getInput"
    /\ elapsedTime = 0
    /\ rec = NoRec
    /\ sd = NoSd
    /\ captured = 0
    /\ decoding = {}
    /\ gifFrames = <<>>
    /\ scrollByCalls = 0
    /\ finishCalls = 0
    /\ chunks = <<>>
    /\ headerCalls = 0
    /\ endPending = FALSE
    /\ getGif = NoGetGif
    /\ gifBuffer = <<>>
    /\ opts = NoOpts
    /\ caught = "none"
    /\ comp = NoComp
    /\ kvStore = <<>>
    /\ toPushDataset = NoDataset
    /\ dataset = <<>>
    /\ browser = "undefined"
    /\ requests = <<>>

\* await Apify.getInput() resolves; the fields are destructured with their
\* defaults; validateConfig returns or throws into the catch of line 226
main_validateConfig ==
    /\ pc = "getInput"
    /\ input' = [input EXCEPT !.frameRate = Destructure(input.given).frameRate.value]
    /\ pc' = IF validateConfig(Destructure(input.given)) = "accepted"
             THEN "launchPuppeteer"
             ELSE "error_setup"
    /\ UNCHANGED <<page, elapsedTime, rec, sd, captured, decoding, gifFrames, chunks,
                   scrollByCalls, browser, requests, finishCalls, delivery>>

\* browser = await Apify.launchPuppeteer(...) resolves
main_launchPuppeteer ==
    /\ pc = "launchPuppeteer"
    /\ browser' = "open"
    /\ pc' = "loadPage"
    /\ UNCHANGED <<recording, finishCalls, chunks, delivery>>

\* Apify.createProxyConfiguration or Apify.launchPuppeteer rejects
main_launchPuppeteerFails ==
    /\ pc = "launchPuppeteer"
    /\ pc' = "error_setup"
    /\ UNCHANGED <<recording, browser, finishCalls, chunks, delivery>>

\* lines 83-141: the page is created, set up and loaded
main_loadPage ==
    /\ pc = "loadPage"
    /\ pc' = "writeHeader"
    /\ UNCHANGED <<recording, browser, finishCalls, chunks, delivery>>

\* page creation or navigation rejects or times out
main_loadPageFails ==
    /\ pc = "loadPage"
    /\ pc' = "error_setup"
    /\ UNCHANGED <<recording, browser, finishCalls, chunks, delivery>>

\* catch (error) { log; throw } finally { await cleanup(browser, gif) } with
\* gif undefined: the browser is closed if it was launched
main_errorSetup ==
    /\ pc = "error_setup"
    /\ browser' = IF browser = "open" THEN "closed" ELSE browser
    /\ pc' = "failed"
    /\ UNCHANGED <<recording, finishCalls, chunks, delivery>>

NextSetup ==
    \/ main_validateConfig
    \/ main_launchPuppeteer
    \/ main_launchPuppeteerFails
    \/ main_loadPage
    \/ main_loadPageFails
    \/ main_errorSetup
    \/ Next

SpecSetup == InitSetup /\ [][NextSetup]_vars

(***************************************************************************)
(* content-blocker.js: the 'request' listener of setupContentBlocker.  A   *)
(* URL is given by its hostname and by the listed patterns that occur in   *)
(* it (url.includes(pattern)).  requests holds the request last handed to  *)
(* the listener with the calls the listener made on it.                    *)
(***************************************************************************)
COMMON_AD_PATTERNS ==
    {"googlesyndication.com", "doubleclick.net", "google-analytics.com",
     "facebook.com/plugins", "amazon-adsystem.com", "adnxs.com", "outbrain.com",
     "taboola.com"}

PRESERVE_PATTERNS ==
    {"github.githubassets.com", "githubusercontent.com", "github.io", "cloudflare.com",
     "jsdelivr.net", "unpkg.com", "cdnjs.cloudflare.com"}

\* request.resourceType() of Puppeteer
ResourceTypes ==
    {"document", "stylesheet", "image", "media", "font", "script", "texttrack", "xhr",
     "fetch", "eventsource", "websocket", "manifest", "other"}

\* the hostname of page.url(), and a third party's
Hostnames == {"example.com", "other.org"}

\* URLs with at most one ad pattern and one preserved domain in them; a URL
\* with cdnjs.cloudflare.com in it has cloudflare.com in it
Urls ==
    {[hostname |-> h, includes |-> ads \cup keep] :
        h \in Hostnames,
        ads \in {{}} \cup {{p} : p \in COMMON_AD_PATTERNS},
        keep \in {{}} \cup {{p} : p \in PRESERVE_PATTERNS \ {"cdnjs.cloudflare.com"}}
                  \cup {{"cdnjs.cloudflare.com", "cloudflare.com"}}}

Requests == [url : Urls, resourceType : ResourceTypes]

RequestHandlerAdsFirst(request, pageUrl) ==
    IF \E pattern \in COMMON_AD_PATTERNS : pattern \in request.url.includes
    THEN <<"abort">>
    ELSE <<"continue">>

\* the listener: the calls it makes on the request, in order
RequestHandler(request, pageUrl) ==
    IF /\ request.resourceType \in {"document", "script", "xhr", "fetch", "websocket"}
       /\ \E pattern \in PRESERVE_PATTERNS : pattern \in request.url.includes
    THEN <<"continue">>
    ELSE IF \E pattern \in COMMON_AD_PATTERNS : pattern \in request.url.includes
    THEN <<"abort">>
    ELSE IF request.resourceType \in {"image", "media", "font"}
    THEN IF \E pattern \in PRESERVE_PATTERNS : pattern \in request.url.includes
         THEN <<"continue">>
         ELSE IF pageUrl.hostname # request.url.hostname
              THEN <<"abort">>
              ELSE <<"continue">>
    ELSE <<"continue">>

\* page.url() while the document loads
PageUrl == [hostname |-> "example.com", includes |-> {}]

\* The browser is launched and the page created; setupPage is about to run.
InitBlocker ==
    /\ input \in [frameRate : {10},
                  recordingTimeBeforeAction : {1000},
                  gifTime : {1000},
                  scrollDown : BOOLEAN]
    /\ page = [pageHeight |-> 900, scrollTop |-> 0, animating |-> FALSE]
    /\ pc = "loadPage"
    /\ elapsedTime = 0
    /\ rec = NoRec
    /\ sd = NoSd
    /\ captured = 0
    /\ decoding = {}
    /\ gifFrames = <<>>
    /\ scrollByCalls = 0
    /\ finishCalls = 0
    /\ chunks = <<>>
    /\ headerCalls = 0
    /\ endPending = FALSE
    /\ getGif = NoGetGif
    /\ gifBuffer = <<>>
    /\ opts = NoOpts
    /\ caught = "none"
    /\ comp = NoComp
    /\ kvStore = <<>>
    /\ toPushDataset = NoDataset
    /\ dataset = <<>>
    /\ browser = "open"
    /\ requests = <<>>

\* setupPage: await setupContentBlocker(page) turns interception on and
\* installs the listener; page.goto(url) is called
main_setupPage ==
    /\ pc = "loadPage"
    /\ pc' = "goto"
    /\ UNCHANGED <<recording, browser, finishCalls, chunks, delivery>>

\* the page issues a request while it loads: the listener runs on it
page_request ==
    /\ pc = "goto"
    /\ \E request \in Requests :
          requests' = <<[request |-> request,
                         decisions |-> RequestHandler(request, PageUrl)]>>
    /\ UNCHANGED <<input, page, pc, elapsedTime, rec, sd, captured, decoding, gifFrames,
                   scrollByCalls, finishCalls, chunks, delivery, browser>>

\* page.goto resolves, and with it the rest of lines 83-141
main_gotoResolves ==
    /\ pc = "goto"
    /\ pc' = "writeHeader"
    /\ UNCHANGED <<recording, browser, finishCalls, chunks, delivery>>

NextBlocker ==
    \/ main_setupPage
    \/ page_request
    \/ main_gotoResolves

SpecBlocker == InitBlocker /\ [][NextBlocker]_vars

(***************************************************************************)
(* part_002 (older helper.js) driven by part_001 (older main.js).          *)
(* The declarations of part_002 are read for their data flow: scrolledTimes*)
(* and scrollByAmount are the values that getScrollParameters computes and *)
(* that scrollDownProcess destructures before the loop and at the end of   *)
(* every iteration.                                                        *)
(***************************************************************************)
\* const frames = (recordingTime / 1000) * frameRate
LegacyFrames(recordingTime, frameRate) == FMulInt(FDiv(recordingTime, 1000), frameRate)

\* if (scrolledTimes % 4 == 0 || scrolledTimes % 5 == 0) scrollByAmount = 0 else 100
LegacyScrollByAmount(scrolledTimes) ==
    IF scrolledTimes % 4 = 0 \/ scrolledTimes % 5 = 0 THEN 0 ELSE 100

\* The runs of the older code that are followed: a gifTime of one second.
InitLegacy ==
    /\ Init
    /\ input.gifTime = 1000

\* gif.on('data', ...); gif.writeHeader()
legacy_main_writeHeader ==
    /\ pc = "writeHeader"
    /\ headerCalls' = headerCalls + 1
    /\ chunks' = OnData(chunks, HeaderChunk)
    /\ pc' = "record"
    /\ UNCHANGED <<recording, browser, finishCalls, endPending, getGif, gifBuffer, opts,
                   caught,
                   comp, kvStore, toPushDataset, dataset>>

legacy_record_begin ==
    /\ pc = "record"
    /\ rec' = [i |-> 0,
               frames |-> LegacyFrames(input.recordingTimeBeforeAction, input.frameRate)]
    /\ pc' = "record_loop"
    /\ UNCHANGED <<input, page, elapsedTime, sd, captured, decoding, gifFrames, chunks,
                   scrollByCalls, browser, requests, finishCalls, delivery>>

\* for (itt = 0; itt < frames; itt++)
legacy_record_loop ==
    /\ pc = "record_loop"
    /\ pc' = IF FLess(FromInt(rec.i), rec.frames) THEN "record_takeScreenshot"
                                                  ELSE "record_return"
    /\ UNCHANGED <<input, page, elapsedTime, rec, sd, captured, decoding, gifFrames, chunks,
                   scrollByCalls, browser, requests, finishCalls, delivery>>

legacy_record_takeScreenshot ==
    /\ pc = "record_takeScreenshot"
    /\ takeScreenshot("record_gifAddFrame")

\* await gifAddFrame(screenshotBuffer, gif)
legacy_record_gifAddFrame ==
    /\ pc = "record_gifAddFrame"
    /\ gifAddFrame(captured)
    /\ rec' = [rec EXCEPT !.i = rec.i + 1]
    /\ pc' = "record_loop"
    /\ UNCHANGED <<input, page, elapsedTime, sd, captured, scrollByCalls, browser,
                   requests, finishCalls, delivery>>

\* elapsedTime += recordingTimeBeforeAction; if (scrollDown)
legacy_main_afterRecord ==
    /\ pc = "record_return"
    /\ elapsedTime' = elapsedTime + input.recordingTimeBeforeAction
    /\ rec' = NoRec
    /\ pc' = IF input.scrollDown THEN "scrollDownProcess" ELSE "finish"
    /\ UNCHANGED <<input, page, sd, captured, decoding, gifFrames, chunks, scrollByCalls,
                   browser, requests,
                   finishCalls, delivery>>

\* let scrolledTimes = 0; const { ... } = await getScrollParameters(...);
\* let scrolledUntil = initialPosition
legacy_scroll_begin ==
    /\ pc = "scrollDownProcess"
    /\ sd' = [pageHeight |-> page.pageHeight,
              scrolledTime |-> FDiv(1000, input.frameRate),
              elapsedTime |-> FromInt(elapsedTime),
              scrolledUntil |-> viewportHeight + page.scrollTop,
              scrollTimes |-> 1,
              scrollAmount |-> LegacyScrollByAmount(0)]
    /\ pc' = "scroll_loop"
    /\ UNCHANGED <<input, page, elapsedTime, rec, captured, decoding, gifFrames, chunks,
                   scrollByCalls, browser, requests, finishCalls, delivery>>

\* while (pageHeight > scrolledUntil && gifTime > elapsedTime)
legacy_scroll_loop ==
    /\ pc = "scroll_loop"
    /\ pc' = IF sd.pageHeight > sd.scrolledUntil
                /\ FLess(sd.elapsedTime, FromInt(input.gifTime))
             THEN "scroll_takeScreenshot"
             ELSE "scroll_return"
    /\ UNCHANGED <<input, page, elapsedTime, rec, sd, captured, decoding, gifFrames, chunks,
                   scrollByCalls, browser, requests, finishCalls, delivery>>

\* await takeScreenshot(page) resolves; gifAddFrame(screenshotBuffer, gif) is
\* called and not awaited; page.evaluate(window.scrollBy) is called.
legacy_scroll_takeScreenshot ==
    /\ pc = "scroll_takeScreenshot"
    /\ Cardinality(decoding) < MaxPending
    /\ takeScreenshot("scroll_scrollBy")

\* await page.evaluate(...) resolves; scrolledUntil += scrollByAmount;
\* elapsedTime += scrolledTime; getScrollParameters is called.
legacy_scroll_scrollBy ==
    /\ pc = "scroll_scrollBy"
    /\ page' = ScrollBy(page, sd.scrollAmount)
    /\ scrollByCalls' = scrollByCalls + 1
    /\ sd' = [sd EXCEPT !.scrolledUntil = sd.scrolledUntil + sd.scrollAmount,
                        !.elapsedTime = FAdd(sd.elapsedTime, sd.scrolledTime)]
    /\ pc' = "scroll_getScrollParameters"
    /\ UNCHANGED <<browser, requests, input, elapsedTime, rec, captured, decoding,
                   gifFrames, chunks, finishCalls, delivery>>

\* await getScrollParameters(...) at the end of the loop body resolves
legacy_scroll_getScrollParameters ==
    /\ pc = "scroll_getScrollParameters"
    /\ sd' = [sd EXCEPT !.pageHeight = page.pageHeight,
                        !.scrollAmount = LegacyScrollByAmount(sd.scrollTimes),
                        !.scrollTimes = sd.scrollTimes + 1]
    /\ pc' = "scroll_loop"
    /\ UNCHANGED <<input, page, elapsedTime, rec, captured, decoding, gifFrames, chunks,
                   scrollByCalls, browser, requests, finishCalls, delivery>>

\* the promise of a gifAddFrame that nobody awaits settles: the PNG is parsed
\* and gif.addFrame is called, whatever the run is doing meanwhile
legacy_gifAddFrame_settles ==
    /\ pc \in {"scroll_takeScreenshot", "scroll_scrollBy", "scroll_getScrollParameters",
               "scroll_loop", "scroll_return", "finish", "getGifBuffer"}
    /\ \E id \in decoding : gifAddFrame(id)
    /\ UNCHANGED <<input, page, pc, elapsedTime, rec, sd, captured, scrollByCalls,
                   browser, requests,
                   finishCalls, delivery>>

legacy_main_afterScroll ==
    /\ pc = "scroll_return"
    /\ sd' = NoSd
    /\ pc' = "finish"
    /\ UNCHANGED <<input, page, elapsedTime, rec, captured, decoding, gifFrames, chunks,
                   scrollByCalls, browser, requests, finishCalls, delivery>>

\* browser.close(); gif.finish();
legacy_main_finish ==
    /\ pc = "finish"
    /\ finishCalls' = finishCalls + 1
    /\ chunks' = OnData(chunks, TrailerChunk)
    /\ endPending' = TRUE
    /\ pc' = "getGifBuffer"
    /\ UNCHANGED <<recording, browser, headerCalls, getGif, gifBuffer, opts, caught, comp,
                   kvStore,
                   toPushDataset, dataset>>

NextLegacy ==
    \/ legacy_main_writeHeader
    \/ legacy_record_begin
    \/ legacy_record_loop
    \/ legacy_record_takeScreenshot
    \/ legacy_record_gifAddFrame
    \/ legacy_main_afterRecord
    \/ legacy_scroll_begin
    \/ legacy_scroll_loop
    \/ legacy_scroll_takeScreenshot
    \/ legacy_scroll_scrollBy
    \/ legacy_scroll_getScrollParameters
    \/ legacy_gifAddFrame_settles
    \/ legacy_main_afterScroll
    \/ legacy_main_finish

SpecLegacy == InitLegacy /\ [][NextLegacy]_vars

(***************************************************************************)
(* Properties of scrollDownProcess and of the recording order.             *)
(***************************************************************************)
FLeq(x, y) == x = y \/ FLess(x, y)

CeilDiv(n, d) == -((-n) \div d)

\* the awaits inside one iteration of the while loop of scrollDownProcess
IterationPcs == {"scroll_takeScreenshot", "scroll_gifAddFrame", "scroll_scrollBy",
                 "scroll_settle"}

\* scrollDownProcess is active and its locals are live
ScrollPcs == IterationPcs \cup {"scroll_loop", "scroll_return"}

\* C2: once scrollDownProcess is entered, the run reaches its return with
\* pageHeight <= scrolledUntil or gifTime <= elapsedTime (or a capture, decode
\* or scroll call failed).
C2_ScrollTerminatesAtABound ==
    (pc = "scrollDownProcess") ~>
        \/ pc \in {"error", "failed"}
        \/ /\ pc = "scroll_return"
           /\ \/ sd.pageHeight <= sd.scrolledUntil
              \/ FLeq(FromInt(input.gifTime), sd.elapsedTime)

C2_Witness ==
    /\ pc = "scroll_return"
    /\ sd.scrollTimes >= maxScrolls
    /\ sd.pageHeight > viewportHeight + page.scrollTop

\* C3: at the top of the while loop an iteration is started if and only if
\* scrolledUntil < pageHeight and elapsedTime < gifTime; a screenshot of the
\* loop is only ever awaited with both bounds unmet.
C3_IterationIffBothUnmet ==
    [][/\ pc = "scroll_loop" =>
            ((pc' = "scroll_takeScreenshot") <=>
                (/\ sd.scrolledUntil < sd.pageHeight
                 /\ FLess(sd.elapsedTime, FromInt(input.gifTime))))
       /\ pc' = "scroll_takeScreenshot" =>
            /\ sd'.scrolledUntil < sd'.pageHeight
            /\ FLess(sd'.elapsedTime, FromInt(input.gifTime))]_vars

C3_Witness ==
    /\ pc = "scroll_takeScreenshot"
    /\ sd.scrollTimes >= 1
    /\ sd.scrolledUntil < sd.pageHeight

\* C4: after k completed iterations elapsedTime equals the elapsedTime passed
\* in plus k * (1000 / frameRate).
C4_ElapsedTimeIsStartPlusKSteps ==
    pc \in ScrollPcs =>
        sd.elapsedTime =
            FAdd(FromInt(elapsedTime), FMulInt(FDiv(1000, input.frameRate), sd.scrollTimes))

\* C5: an iteration whose index modulo 17 lies in 10..16 applies a delta of 0,
\* in every cycle including the first.
C5_PausedPositionsScrollZero ==
    (pc \in IterationPcs /\ sd.scrollTimes % 17 \in 10..16) => sd.scrollAmount = 0

\* C6: an iteration outside the paused cycle positions applies a delta within
\* 27..44, and no iteration applies a delta that is negative, strictly between
\* 0 and 27, or above 44.
C6_ActiveDeltaWithinVariation ==
    pc \in IterationPcs =>
        /\ sd.scrollTimes % 17 < 10 => sd.scrollAmount \in 27..44
        /\ sd.scrollAmount = 0 \/ sd.scrollAmount \in 27..44

C6_Witness ==
    /\ pc = "scroll_settle"
    /\ sd.scrollAmount > 27

\* C7: scrolledUntil starts at viewportHeight + scrollTop, after each iteration
\* equals its previous value plus the iteration's delta, which is not negative,
\* and never decreases during the run.
C7_ScrolledUntilMonotone ==
    [][/\ pc = "scrollDownProcess" =>
            sd'.scrolledUntil = viewportHeight + page.scrollTop
       /\ (pc = "scroll_settle" /\ pc' = "scroll_loop") =>
            /\ sd.scrollAmount >= 0
            /\ sd'.scrolledUntil = sd.scrolledUntil + sd.scrollAmount
       /\ (pc \in ScrollPcs /\ pc' \in ScrollPcs) =>
            sd'.scrolledUntil >= sd.scrolledUntil]_vars

C7_Witness ==
    /\ pc = "scroll_loop"
    /\ sd.scrollTimes >= 2
    /\ sd.scrolledUntil > viewportHeight + 120

\* C8: scrollDownProcess performs at most
\* ceil((gifTime - elapsedTimeSoFar) * frameRate / 1000) iterations.
C8_IterationsWithinTimeBudget ==
    pc = "scroll_return" =>
        sd.scrollTimes <= CeilDiv((input.gifTime - elapsedTime) * input.frameRate, 1000)

\* floor(recordingTimeBeforeAction / 1000 * frameRate)
HoldFrames ==
    FFloor(FMulInt(FDiv(input.recordingTimeBeforeAction, 1000), input.frameRate))

\* C9: no window.scrollBy is made before all
\* floor(recordingTimeBeforeAction / 1000 * frameRate) hold frames have been
\* appended to the encoder: at every scrollBy the encoder holds the hold frames
\* and, after them, the frames of the loop iterations begun so far.
C9_HoldFramesBeforeFirstScroll ==
    [][scrollByCalls' > scrollByCalls =>
          /\ Len(gifFrames) >= HoldFrames + sd.scrollTimes + 1
          /\ \A n \in 1..HoldFrames : gifFrames[n] = n]_vars

C9_Witness ==
    /\ scrollByCalls = 1
    /\ input.frameRate = 10
    /\ input.recordingTimeBeforeAction = 1000
    /\ Len(gifFrames) = 11

\* C1: when no capture or decode fails, record has called gif.addFrame exactly
\* floor(recordingTime / 1000 * frameRate) times when it returns.
C1_RecordAddsFloorFrames ==
    pc = "record_return" => Len(gifFrames) = HoldFrames

RECURSIVE FrameBytes(_)
\* the image blocks of the frames, in order
FrameBytes(frames) ==
    IF frames = <<>> THEN <<>> ELSE FrameChunk(Head(frames)) \o FrameBytes(Tail(frames))

RECURSIVE SumLen(_)
SumLen(list) == IF list = <<>> THEN 0 ELSE Len(Head(list)) + SumLen(Tail(list))

\* the run is over
Terminal == {"done", "failed"}

\* C11: on every path of a run the encoder session goes open -> addFrame* ->
\* close: writeHeader is called once and before any addFrame, and no addFrame
\* is made once gif.finish() has been called.
C11_EncoderOpenAddClose ==
    [][/\ headerCalls' <= 1
       /\ Len(gifFrames') > Len(gifFrames) => (headerCalls = 1 /\ finishCalls = 0)
       /\ finishCalls' > finishCalls => headerCalls = 1]_vars

C11_Witness ==
    /\ pc = "done"
    /\ caught = "click"
    /\ Len(gifFrames) >= 6

\* C12: gif.finish() is called exactly once for every created encoder, on the
\* success path and on every failure path; the finish before the assembly and
\* the finish of cleanup never both run.
C12_FinishExactlyOnce ==
    /\ finishCalls <= 1
    /\ (pc \in Terminal /\ headerCalls = 1) => finishCalls = 1

\* C13: the buffer returned by getGifBuffer is the concatenation, in emission
\* order, of every chunk emitted from writeHeader to finish: the header, the
\* image block of each frame in order, the trailer; its length is the sum of
\* the chunk lengths.
C13_BufferIsChunksInOrder ==
    getGif.settled = "resolved" =>
        /\ gifBuffer = HeaderChunk \o FrameBytes(gifFrames) \o TrailerChunk
        /\ Len(chunks) = Len(gifFrames) + 2
        /\ Len(gifBuffer) = SumLen(chunks)

C13_Witness ==
    /\ getGif.settled = "resolved"
    /\ Len(gifFrames) >= 3

\* C14: getGifBuffer settles only when the encoder's 'end' signal reaches its
\* listener, after gif.finish(); once gif.finish() has been called and
\* getGifBuffer is awaited it resolves, and its listener runs once.
C14_ResolvesAfterEndOnly ==
    /\ [][getGif'.settled # getGif.settled =>
             /\ endPending
             /\ finishCalls >= 1
             /\ getGif.listening
             /\ getGif'.ends = 1]_vars
    /\ [](getGif.ends <= 1)
    /\ (pc = "getGifBuffer") ~> (getGif.settled = "resolved" /\ getGif.ends = 1)

C14_Witness ==
    /\ pc = "saveOriginal"
    /\ getGif.settled = "resolved"
    /\ getGif.ends = 1

C17_BackoffOneTwoFour ==
    /\ \A i \in 1..Len(comp.waits) : comp.waits[i] = Pow2(i - 1) * 1000
    /\ comp.outcome = "threw" => Len(comp.waits) = comp.failures - 1

\* the awaits of compressGif
CompressPcs == {"compress_attempt", "compress_wait"}

\* C18: compressGif does not change its input: gifBuffer is the same before
\* and after every step of the call, every attempt is given these bytes, and
\* the returned buffer is another buffer.
C18_InputNotMutated ==
    [][/\ pc \in CompressPcs => gifBuffer' = gifBuffer
       /\ \A i \in 1..Len(comp'.given) : comp'.given[i] = gifBuffer
       /\ comp'.outcome = "returned" => comp'.result.bytes # gifBuffer]_vars

C18_Witness ==
    /\ comp.outcome = "returned"
    /\ Len(comp.given) = 3
    /\ Len(gifBuffer) > 4

\* C19: a compression failure is isolated to its profile: when a profile
\* fails after its retries, the original is saved and its locator is in the
\* pushed record, a requested lossless profile is still attempted after a
\* lossy failure, and a saved lossy artifact stays reported after a lossless
\* failure.
C19_CompressionFailureIsolated ==
    (pc \in Terminal /\ comp.threw # {}) =>
        /\ Len(kvStore) >= 1
        /\ kvStore[1].key = "original"
        /\ Len(dataset) = 1
        /\ dataset[1].gifUrlOriginal = "original"
        /\ ("lossy" \in comp.threw /\ opts.loslessCompression) => "losless" \in comp.called
        /\ (\E n \in 1..Len(kvStore) : kvStore[n].key = "lossy") =>
               dataset[1].gifUrlLossy = "lossy"

\* a step in which page.screenshot rejects
CaptureFails ==
    /\ pc \in {"record_takeScreenshot", "scroll_takeScreenshot",
               "click_record_takeScreenshot"}
    /\ pc' # pc
    /\ captured' = captured

\* a step in which the PNG of the screenshot cannot be parsed
DecodeFails ==
    /\ pc \in {"record_gifAddFrame", "scroll_gifAddFrame", "click_record_gifAddFrame"}
    /\ pc' # pc
    /\ gifFrames' = gifFrames

\* C20: a capture or decode failure in any recording phase (hold before the
\* action, scroll loop, hold after the click) aborts the run: the error reaches
\* the top-level handler, after which no frame is appended and no artifact is
\* saved.
C20_CaptureFailureAborts ==
    [][/\ (CaptureFails \/ DecodeFails) => pc' = "error"
       /\ pc \in {"error", "failed"} =>
            (gifFrames' = gifFrames /\ kvStore' = kvStore /\ pc' \in {"error", "failed"})]_vars

\* the file names under which the run saved a buffer
SavedKeys == {kvStore[n].key : n \in 1..Len(kvStore)}

\* C21: a run that completes without a failure has saved the original
\* artifact, the lossy artifact exactly when lossyCompression is set and the
\* lossless artifact exactly when loslessCompression is set, each once, and
\* the one record it pushed holds a locator for exactly the saved artifacts.
C21_ArtifactsAsRequested ==
    pc = "done" =>
        /\ SavedKeys = {"original"}
                        \cup (IF opts.lossyCompression THEN {"lossy"} ELSE {})
                        \cup (IF opts.loslessCompression THEN {"losless"} ELSE {})
        /\ Len(kvStore) = Cardinality(SavedKeys)
        /\ kvStore[1] = [key |-> "original", value |-> gifBuffer]
        /\ Len(dataset) = 1
        /\ dataset[1].gifUrlOriginal = "original"
        /\ dataset[1].gifUrlLossy =
               IF "lossy" \in SavedKeys THEN "lossy" ELSE "undefined"
        /\ dataset[1].gifUrlLosless =
               IF "losless" \in SavedKeys THEN "losless" ELSE "undefined"

C21_Witness ==
    /\ pc = "done"
    /\ ~opts.lossyCompression
    /\ opts.loslessCompression
    /\ dataset[1].gifUrlLosless = "losless"

\* C22: scrolling and capture never overlap: when the screenshot of a scroll
\* iteration is taken, the smooth scroll started by the iteration before it
\* has ended in the page, however long the animation lasts.
C22_ScrollEndsBeforeCapture ==
    pc = "scroll_takeScreenshot" => ~page.animating

\* loop states of scrollDownProcess on the run's page: any index of the first
\* two scroll/pause cycles, at any position a run of steps of minVariation can
\* stand on
LoopStates ==
    [pageHeight : {page.pageHeight},
     scrolledUntil : {viewportHeight + k * minVariation : k \in 0..MaxFrames},
     scrollTimes : 0..(2 * (maxScrolls + waitScrolls))]

\* C23: the eased progress has an effect on the scroll decision: there are two
\* loop states with the same iteration index and the same random draw but a
\* different progress scrolledUntil / pageHeight for which the scroll delta
\* (and with it the pause decision, a delta of 0) differs.
C23_ProgressAffectsDecision ==
    \E s \in LoopStates, u \in 0..(RandomDen - 1) :
        \E y \in {viewportHeight + k * minVariation : k \in 0..MaxFrames} :
            /\ y # s.scrolledUntil
            /\ ScrollDecision(s, u) # ScrollDecision([s EXCEPT !.scrolledUntil = y], u)

\* C24: a record whose N = floor(recordingTime / 1000 * frameRate) is 0 is a
\* no-op: from its call to its return no screenshot is taken, no frame is
\* appended, and the encoder session and the page's scroll position stay as
\* they were.
C24_RecordZeroIsNoOp ==
    [][(/\ pc \in {"record", "record_loop"}
        /\ (input.recordingTimeBeforeAction * input.frameRate) \div 1000 = 0) =>
           /\ pc' \in {"record_loop", "record_return"}
           /\ captured' = captured
           /\ decoding' = decoding
           /\ gifFrames' = gifFrames
           /\ chunks' = chunks
           /\ headerCalls' = headerCalls
           /\ finishCalls' = finishCalls
           /\ scrollByCalls' = scrollByCalls
           /\ page' = page]_vars

C24_Witness ==
    /\ pc = "record_return"
    /\ input.recordingTimeBeforeAction = 0
    /\ captured = 0
    /\ gifFrames = <<>>
    /\ chunks = <<HeaderChunk>>

\* C25: once the browser is launched, every run, successful or failed, ends
\* with browser.close() called and, if the encoder session was opened, with
\* gif.finish() called on it.
C25_CleanupAlwaysRuns ==
    pc \in Terminal =>
        /\ browser \in {"closed", "closeRejected"}
        /\ headerCalls = 1 => finishCalls >= 1

\* C26: with scrolling enabled, no click recording and
\* recordingTimeBeforeAction <= gifTime, the frames of the run (hold frames
\* plus scroll iterations) number at most ceil(gifTime * frameRate / 1000);
\* the elapsed time handed to the scroll loop is recordingTimeBeforeAction
\* itself.
C26_FrameBudget ==
    /\ (pc = "scroll_loop" /\ sd.scrollTimes = 0) =>
           sd.elapsedTime = FromInt(input.recordingTimeBeforeAction)
    /\ (pc = "scroll_return" /\ input.recordingTimeBeforeAction <= input.gifTime) =>
           Len(gifFrames) <= CeilDiv(input.gifTime * input.frameRate, 1000)

\* C27: the per-iteration delta does not depend on scrollPercentage: two
\* runs that differ only in scrollPercentage and see the same random draws
\* apply the same delta in every iteration and stop after the same number of
\* iterations (their loop states agree in all but baseScrollAmount).
C27_DeltaIgnoresScrollPercentage ==
    pc \in {"twin_loop", "twin_return"} =>
        /\ sd.a.baseScrollAmount # sd.b.baseScrollAmount
        /\ [sd.a EXCEPT !.baseScrollAmount = 0] = [sd.b EXCEPT !.baseScrollAmount = 0]

C27_Witness ==
    /\ pc = "twin_return"
    /\ sd.a.baseScrollAmount # sd.b.baseScrollAmount
    /\ sd.a.scrollTimes > maxScrolls
    /\ sd.b.scrollTimes = sd.a.scrollTimes
    /\ sd.a.scrolledUntil > viewportHeight + maxScrolls * minVariation

\* the run has got past validateConfig: a browser was launched, an encoder
\* session opened or a screenshot taken
Launched == browser # "undefined" \/ headerCalls > 0 \/ captured > 0

\* C28 as stated: no browser is launched, no encoder session opened and no
\* capture made in a run whose url, viewportHeight, viewportWidth or frameRate
\* is missing or zero, whose viewportHeight is outside 100..4000 or whose
\* frameRate is outside 1..60; record and scrollDownProcess see a frameRate in
\* 1..60 only.
C28_InvalidInputNeverLaunches ==
    /\ (\/ \E key \in {"url", "viewportHeight", "viewportWidth", "frameRate"} :
              Falsy(input.given[key])
        \/ input.given.viewportHeight.value \notin 100..4000
        \/ input.given.frameRate.value \notin 1..60) => ~Launched
    /\ headerCalls > 0 => input.frameRate \in 1..60

\* the input fields as the amended claim accepts them
AcceptedInput ==
    /\ input.given.url.defined /\ input.given.url.value # 0
    /\ input.given.viewportHeight.defined => input.given.viewportHeight.value \in 100..4000
    /\ input.given.viewportWidth.defined => input.given.viewportWidth.value # 0
    /\ input.given.frameRate.defined => input.given.frameRate.value \in 1..60

\* C28 amended: a missing viewportHeight, viewportWidth or frameRate takes its
\* default (768, 1366, 10) and is accepted.  No browser is launched, no
\* encoder session opened and no capture made in a run whose url is missing or
\* empty, whose viewportHeight, viewportWidth or frameRate is given as zero,
\* whose given viewportHeight is outside 100..4000 or whose given frameRate is
\* outside 1..60: such a run fails at validateConfig.  Every other run gets
\* past validateConfig, and record and scrollDownProcess see a frameRate in
\* 1..60 only.
C28_OnlyAcceptedInputLaunches ==
    /\ Launched => AcceptedInput
    /\ (pc # "getInput" /\ ~AcceptedInput) => (pc \in {"error_setup", "failed"} /\ ~Launched)
    /\ pc = "launchPuppeteer" => AcceptedInput
    /\ headerCalls > 0 => input.frameRate \in 1..60

C28_Witness ==
    /\ ~input.given.frameRate.defined
    /\ ~input.given.viewportHeight.defined
    /\ input.frameRate = 10
    /\ browser = "open"
    /\ captured > 0

====
